---- MODULE Spec2Model ----
(***************************************************************************)
(* Multivariate Student's T distribution of gonum (stat/distmv/studentst.go)*)
(* as a state machine: a caller holds one location buffer, one receiver    *)
(* distribution that it built, and the outcome of the last call it made.   *)
(*                                                                         *)
(* float64 values are modelled exactly: a value is <<"q", n, d>>, the      *)
(* rational n/d in lowest terms, with d = 0 for the IEEE specials          *)
(* (1/0 = +Inf, -1/0 = -Inf, 0/0 = NaN).  The results of sqrt, log, lgamma *)
(* and exp that are not rational stay formal terms <<"sqrt", x>>, ... so   *)
(* that no rounding is invented; rounding failures of the factorization    *)
(* are an explicit input (fault) of the calls that factorize.              *)
(***************************************************************************)
EXTENDS Integers, Sequences, FiniteSets, TLC

\* ------------------------------------------------------------------ bounds
MaxDim == 3
MaxObs == 2
NumAddrs == 4

\* ------------------------------------------------------------ float64 values
Abs(n) == IF n < 0 THEN -n ELSE n

Sign(n) == IF n < 0 THEN -1 ELSE IF n > 0 THEN 1 ELSE 0

RECURSIVE GCD(_, _)
GCD(a, b) == IF b = 0 THEN a ELSE GCD(b, a % b)

Q(n, d) ==
  IF d = 0 THEN <<"q", Sign(n), 0>>
  ELSE LET g == GCD(Abs(n), Abs(d))
           s == IF d < 0 THEN -1 ELSE 1
       IN <<"q", (s * n) \div g, (s * d) \div g>>

F(n) == <<"q", n, 1>>

PInf == <<"q", 1, 0>>

NaN == <<"q", 0, 0>>

IsQ(x) == x[1] = "q"

IsNaN(x) == x = NaN

IsFinite(x) == IsQ(x) /\ x[3] # 0

IsInf(x, sign) == IsQ(x) /\ x[3] = 0 /\ x[2] # 0 /\ (sign = 0 \/ Sign(sign) = x[2])

FNeg(x) == IF IsQ(x) THEN <<"q", -x[2], x[3]>> ELSE <<"neg", x>>

FAdd(x, y) ==
  IF IsQ(x) /\ IsQ(y) THEN
    IF IsNaN(x) \/ IsNaN(y) THEN NaN
    ELSE IF x[3] = 0 THEN (IF y[3] = 0 /\ y[2] # x[2] THEN NaN ELSE x)
    ELSE IF y[3] = 0 THEN y
    ELSE Q(x[2] * y[3] + y[2] * x[3], x[3] * y[3])
  ELSE <<"add", x, y>>

FSub(x, y) == IF IsQ(x) /\ IsQ(y) THEN FAdd(x, FNeg(y)) ELSE <<"sub", x, y>>

FMul(x, y) ==
  IF IsQ(x) /\ IsQ(y) THEN Q(x[2] * y[2], x[3] * y[3])
  ELSE <<"mul", x, y>>

FDiv(x, y) ==
  IF IsQ(x) /\ IsQ(y) THEN
    IF y[2] < 0 THEN Q(-(x[2] * y[3]), x[3] * (-y[2]))
    ELSE Q(x[2] * y[3], x[3] * y[2])
  ELSE <<"div", x, y>>

FLess(x, y) == IsQ(x) /\ IsQ(y) /\ ~IsNaN(x) /\ ~IsNaN(y) /\
  ( \/ (x[3] = 0 /\ y[3] = 0 /\ x[2] < y[2])
    \/ (x[3] = 0 /\ y[3] # 0 /\ x[2] < 0)
    \/ (x[3] # 0 /\ y[3] = 0 /\ y[2] > 0)
    \/ (x[3] # 0 /\ y[3] # 0 /\ x[2] * y[3] < y[2] * x[3]) )

ISqrt(n) == IF \E r \in 0..n : r * r = n THEN CHOOSE r \in 0..n : r * r = n ELSE -1

FSqrt(x) ==
  IF ~IsQ(x) THEN <<"sqrt", x>>
  ELSE IF IsNaN(x) \/ x[2] < 0 THEN NaN
  ELSE IF x[3] = 0 THEN PInf
  ELSE IF ISqrt(x[2]) >= 0 /\ ISqrt(x[3]) >= 0 THEN Q(ISqrt(x[2]), ISqrt(x[3]))
  ELSE <<"sqrt", x>>

FLog(x) ==
  IF ~IsQ(x) THEN <<"log", x>>
  ELSE IF IsNaN(x) \/ x[2] < 0 THEN NaN
  ELSE IF x[3] = 0 THEN PInf
  ELSE IF x[2] = 0 THEN FNeg(PInf)
  ELSE IF x = F(1) THEN F(0)
  ELSE <<"log", x>>

FExp(x) ==
  IF ~IsQ(x) THEN <<"exp", x>>
  ELSE IF IsNaN(x) THEN NaN
  ELSE IF x[3] = 0 THEN (IF x[2] > 0 THEN PInf ELSE F(0))
  ELSE IF x[2] = 0 THEN F(1)
  ELSE <<"exp", x>>

Lgamma(x) ==
  IF ~IsQ(x) THEN <<"lgamma", x>>
  ELSE IF IsNaN(x) THEN NaN
  ELSE IF x[3] = 0 THEN PInf
  ELSE IF x[3] = 1 /\ x[2] <= 0 THEN PInf
  ELSE IF x = F(1) \/ x = F(2) THEN F(0)
  ELSE <<"lgamma", x>>

Pi == <<"pi">>

\* ------------------------------------------------------- vectors and matrices
\* A vector is a sequence of values, a matrix a sequence of rows.  The Go code
\* indexes from 0: index lists hold 0-based indices.
At(m, i, j) == m[i + 1][j + 1]

RECURSIVE SumTo(_, _)
SumTo(f, k) == IF k = 0 THEN F(0) ELSE FAdd(SumTo(f, k - 1), f[k])

Dot(u, v) == SumTo([k \in 1..Len(u) |-> FMul(u[k], v[k])], Len(u))

MulVec(m, v) == [i \in 1..Len(m) |-> Dot(m[i], v)]

Transpose(m) ==
  IF Len(m) = 0 THEN <<>>
  ELSE [j \in 1..Len(m[1]) |-> [i \in 1..Len(m) |-> m[i][j]]]

Mul(a, b) ==
  [i \in 1..Len(a) |-> [j \in 1..Len(b[1]) |->
     Dot(a[i], [k \in 1..Len(b) |-> b[k][j]])]]

SubsetSym(sigma, idx) ==
  [i \in 1..Len(idx) |-> [j \in 1..Len(idx) |-> At(sigma, idx[i], idx[j])]]

ScaleSym(f, m) == [i \in 1..Len(m) |-> [j \in 1..Len(m) |-> FMul(f, m[i][j])]]

AddScaledTo(y, alpha, s) == [i \in 1..Len(y) |-> FAdd(y[i], FMul(alpha, s[i]))]

\* ------------------------------------------------ mat.Cholesky (collaborator)
\* The entries c[i][j] (j <= i) of the reduced matrix of the factorization:
\* c[j][j] is the j-th pivot and the lower factor is L[i][j] = c[i][j]/sqrt(c[j][j]).
CholReduce(a) ==
  LET n == Len(a)
      c[p \in (1..n) \X (1..n)] ==
        FSub(a[p[1]][p[2]],
             SumTo([k \in 1..(p[2] - 1) |->
                      FDiv(FMul(c[<<p[1], k>>], c[<<p[2], k>>]), c[<<k, k>>])],
                   p[2] - 1))
  IN [i \in 1..n |-> [j \in 1..n |-> IF j <= i THEN c[<<i, j>>] ELSE F(0)]]

\* fault: the factorization fails to the engine's tolerance although the
\* matrix is positive definite in exact arithmetic.
Pivots(c, fault) == [ok |-> ~fault /\ \A j \in 1..Len(c) : FLess(F(0), c[j][j]), c |-> c]

Factorize(a, fault) == Pivots(CholReduce(a), fault)

LTo(chol) ==
  [i \in 1..Len(chol.c) |-> [j \in 1..Len(chol.c) |->
     IF j <= i THEN FDiv(chol.c[i][j], FSqrt(chol.c[j][j])) ELSE F(0)]]

LogDet(chol) == SumTo([j \in 1..Len(chol.c) |-> FLog(chol.c[j][j])], Len(chol.c))

\* Solves a * x = b with the factor of a: forward then backward substitution.
SolveVecTo(chol, b) ==
  LET n == Len(b)
      c == chol.c
      w[i \in 1..n] ==
        FSub(b[i], SumTo([k \in 1..(i - 1) |-> FMul(FDiv(c[i][k], c[k][k]), w[k])], i - 1))
      x[i \in 1..n] ==
        FSub(FDiv(w[i], c[i][i]),
             SumTo([k \in 1..(n - i) |-> FMul(FDiv(c[i + k][i], c[i][i]), x[i + k])], n - i))
  IN [i \in 1..n |-> x[i]]

SolveTo(chol, b) ==
  LET cols == [j \in 1..Len(b[1]) |-> SolveVecTo(chol, [i \in 1..Len(b) |-> b[i][j]])]
  IN [i \in 1..Len(b) |-> [j \in 1..Len(b[1]) |-> cols[j][i]]]

\* stat.Mahalanobis: sqrt((x-y)' a^-1 (x-y)) through a solve with the factor.
QuadForm(d, chol) == FSqrt(Dot(d, SolveVecTo(chol, d)))

Mahalanobis(x, y, chol) == QuadForm([i \in 1..Len(x) |-> FSub(x[i], y[i])], chol)

\* ------------------------------------------------------------------ findUnob
RECURSIVE SortInts(_)
SortInts(S) ==
  IF S = {} THEN <<>>
  ELSE LET m == CHOOSE x \in S : \A y \in S : x <= y
       IN <<m>> \o SortInts(S \ {m})

\* findUnob without the final sort.Ints, the set read out from the top.
RECURSIVE ReadDown(_)
ReadDown(S) ==
  IF S = {} THEN <<>>
  ELSE LET m == CHOOSE x \in S : \A y \in S : x >= y
       IN <<m>> \o ReadDown(S \ {m})

findUnob_Unsorted(observed, dim) ==
  ReadDown((0..(dim - 1)) \ {observed[i] : i \in 1..Len(observed)})

findUnob(observed, dim) ==
  LET setOb == {observed[i] : i \in 1..Len(observed)}
      setAll == 0..(dim - 1)
      setUnob == setAll \ setOb
  IN SortInts(setUnob)

\* ------------------------------------------------------ studentsTConditional
\* faults: the set of numerical steps that fail in this call.  The function is
\* written as a chain of steps, each handing its values to the next.
condFailed(n) ==
  [panic |-> "", newNu |-> NaN, newMean |-> <<>>, newSigma |-> <<>>, factorized |-> n]

\* condScale forgetting the observed count: nu kept, scale (nu+beta)/nu.
condScale_KeepNu(nu, ob, newMu, schur, beta) ==
  IF IsInf(nu, 1) THEN
    [panic |-> "", newNu |-> nu, newMean |-> newMu, newSigma |-> schur, factorized |-> 1]
  ELSE
    [panic |-> "", newNu |-> nu, newMean |-> newMu,
     newSigma |-> ScaleSym(FDiv(FAdd(nu, beta), nu), schur), factorized |-> 1]

\* Lines 194-205: the Gaussian case returns unscaled, the finite one rescales.
condScale(nu, ob, newMu, schur, beta) ==
  IF IsInf(nu, 1) THEN
    [panic |-> "", newNu |-> nu, newMean |-> newMu, newSigma |-> schur, factorized |-> 1]
  ELSE
    [panic |-> "", newNu |-> FAdd(nu, F(ob)), newMean |-> newMu,
     newSigma |-> ScaleSym(FDiv(FAdd(nu, beta), FAdd(nu, F(ob))), schur),
     factorized |-> 1]

\* Lines 184-192: sigma11 - tmp4 on the upper triangle, mirrored by SetSym.
condSchur(sigma11, tmp4) ==
  [i \in 1..Len(sigma11) |-> [j \in 1..Len(sigma11) |->
     IF i <= j THEN FSub(sigma11[i][j], tmp4[i][j])
     ELSE FSub(sigma11[j][i], tmp4[j][i])]]

\* Lines 169-182 and 200.
condUpdate(nu, mu1, mu2, sigma11, sigma21, tmp, tmp3) ==
  condScale(nu, Len(mu2),
            [i \in 1..Len(mu1) |-> FAdd(mu1[i], MulVec(Transpose(sigma21), tmp)[i])],
            condSchur(sigma11, Mul(Transpose(sigma21), tmp3)),
            Dot(mu2, tmp))

\* Lines 156-181: the factorization of sigma22 and the two solves.
condSolve(nu, faults, mu1, mu2, sigma11, sigma21, chol) ==
  IF ~chol.ok THEN condFailed(1)
  ELSE IF "solveVec" \in faults THEN condFailed(1)
  ELSE IF "solve" \in faults THEN condFailed(1)
  ELSE condUpdate(nu, mu1, mu2, sigma11, sigma21,
                  SolveVecTo(chol, mu2), SolveTo(chol, sigma21))

\* condPartition without the check of lines 131-133.
condPartition_NoCheck(observed, values, nu, mu, sigma, faults, unobserved) ==
  condSolve(nu, faults,
            [i \in 1..Len(unobserved) |-> mu[unobserved[i] + 1]],
            [i \in 1..Len(observed) |-> FSub(values[i], mu[observed[i] + 1])],
            SubsetSym(sigma, unobserved),
            [i \in 1..Len(observed) |-> [j \in 1..Len(unobserved) |->
               At(sigma, observed[i], unobserved[j])]],
            Factorize(SubsetSym(sigma, observed), "factor22" \in faults))

\* Lines 130-157.
condPartition(observed, values, nu, mu, sigma, faults, unobserved) ==
  IF Len(unobserved) = 0 THEN
    [panic |-> "stat: all dimensions observed", newNu |-> NaN, newMean |-> <<>>,
     newSigma |-> <<>>, factorized |-> 0]
  ELSE
    condSolve(nu, faults,
              [i \in 1..Len(unobserved) |-> mu[unobserved[i] + 1]],
              [i \in 1..Len(observed) |-> FSub(values[i], mu[observed[i] + 1])],
              SubsetSym(sigma, unobserved),
              [i \in 1..Len(observed) |-> [j \in 1..Len(unobserved) |->
                 At(sigma, observed[i], unobserved[j])]],
              Factorize(SubsetSym(sigma, observed), "factor22" \in faults))

studentsTConditional(observed, values, nu, mu, sigma, faults) ==
  condPartition(observed, values, nu, mu, sigma, faults, findUnob(observed, Len(mu)))

\* --------------------------------------------------------------------- state
\* heap:  the []float64 backing arrays, by address; address 1 is the caller's
\*        location buffer, the others belong to distributions (<<>>: free).
\* s:     the receiver the caller works with: <<>> (none yet) or <<dist>>.
\* ret:   the outcome of the call the caller has made and not yet looked at
\*        (op "none": the caller is between calls).
VARIABLES heap, s, ret

vars == <<heap, s, ret>>

Addrs == 1..NumAddrs

Caller == 1

Srcs == {0, 1}

Alloc(used) == CHOOSE a \in Addrs \ used : \A b \in Addrs \ used : a <= b

Collect(h, roots) == [a \in Addrs |-> IF a \in roots THEN h[a] ELSE <<>>]

MuOf(d) == IF d = <<>> THEN {} ELSE {d[1].mu}

Out(op, args) ==
  [op |-> op, args |-> args, panic |-> "", dist |-> <<>>, ok |-> FALSE,
   val |-> <<>>, factorized |-> 0, norm |-> 0, chi |-> 0]

Idle == Out("none", <<>>)

Panic(op, args, msg) == [Out(op, args) EXCEPT !.panic = msg]

\* -------------------------------------------------------------- NewStudentsT
\* The result of a call that builds a distribution: the heap after it, the
\* panic raised ("" if none), the returned dist (<<>>: nil) and ok, and the
\* number of factorizations attempted.
Result(h, panic, dist, ok, factorized) ==
  [heap |-> h, panic |-> panic, dist |-> dist, ok |-> ok, factorized |-> factorized]

\* newDist returning the half-built s when the factorization fails.
newDist_Partial(h, a, mu, sigma, nu, src, chol) ==
  Result([h EXCEPT ![a] = h[mu]], "",
         << [nu |-> nu, mu |-> a, src |-> src, rnd |-> (src # 0),
             sigma |-> sigma, chol |-> chol, lower |-> LTo(chol),
             logSqrtDet |-> FMul(Q(1, 2), LogDet(chol)), dim |-> Len(sigma)] >>,
         chol.ok, 1)

\* newDist keeping the caller's slice (s.mu = mu) instead of copying it.
newDist_Alias(h, a, mu, sigma, nu, src, chol) ==
  IF ~chol.ok THEN Result(h, "", <<>>, FALSE, 1)
  ELSE Result(h, "",
              << [nu |-> nu, mu |-> mu, src |-> src, rnd |-> (src # 0),
                  sigma |-> sigma, chol |-> chol, lower |-> LTo(chol),
                  logSqrtDet |-> FMul(Q(1, 2), LogDet(chol)), dim |-> Len(sigma)] >>,
              TRUE, 1)

\* Lines 65-84, a the address of make([]float64, dim).
newDist(h, a, mu, sigma, nu, src, chol) ==
  IF ~chol.ok THEN Result(h, "", <<>>, FALSE, 1)
  ELSE Result([h EXCEPT ![a] = h[mu]], "",
              << [nu |-> nu, mu |-> a, src |-> src, rnd |-> (src # 0),
                  sigma |-> sigma, chol |-> chol, lower |-> LTo(chol),
                  logSqrtDet |-> FMul(Q(1, 2), LogDet(chol)), dim |-> Len(sigma)] >>,
              TRUE, 1)

\* mu is the address of the slice passed in; the result's heap holds the new
\* distribution's own copy.
NewStudentsT(h, used, mu, sigma, nu, src, fault) ==
  IF Len(h[mu]) = 0 THEN Result(h, "badZeroDimension", <<>>, FALSE, 0)
  ELSE IF Len(sigma) # Len(h[mu]) THEN Result(h, "badSizeMismatch", <<>>, FALSE, 0)
  ELSE newDist(h, Alloc(used), mu, sigma, nu, src, Factorize(sigma, fault))

\* -------------------------------------------------------- ConditionStudentsT
\* Lines 112-117, c the values studentsTConditional returned and t the address
\* of newMean.
condBuild(h, used, t, src, faults, c) ==
  IF c.panic # "" THEN Result(h, c.panic, <<>>, FALSE, 0)
  ELSE IF c.newMean = <<>> THEN Result(h, "", <<>>, FALSE, c.factorized)
  ELSE [NewStudentsT([h EXCEPT ![t] = c.newMean], used \cup {t}, t, c.newSigma,
                     c.newNu, src, "factorNew" \in faults)
          EXCEPT !.factorized = @ + c.factorized]

ConditionStudentsT(h, used, d, observed, values, src, faults) ==
  IF Len(observed) = 0 THEN Result(h, "studentst: no observed value", <<>>, FALSE, 0)
  ELSE IF Len(observed) # Len(values) THEN Result(h, "badInputLength", <<>>, FALSE, 0)
  ELSE IF \E i \in 1..Len(observed) : observed[i] < 0 \/ observed[i] >= d.dim THEN
    Result(h, "studentst: observed value out of bounds", <<>>, FALSE, 0)
  ELSE condBuild(h, used, Alloc(used), src, faults,
                 studentsTConditional(observed, values, d.nu, h[d.mu], d.sigma, faults))

\* --------------------------------------------------------- MarginalStudentsT
\* Lines 289, t the address of newMean.
margBuild(h, used, t, newMean, newSigma, nu, src, fault) ==
  NewStudentsT([h EXCEPT ![t] = newMean], used \cup {t}, t, newSigma, nu, src, fault)

\* MarginalStudentsT reading vars from its end.
MarginalStudentsT_Reversed(h, used, d, marg, src, fault) ==
  IF \E i \in 1..Len(marg) : marg[i] < 0 \/ marg[i] >= d.dim THEN
    Result(h, "index out of range", <<>>, FALSE, 0)
  ELSE margBuild(h, used, Alloc(used),
                 [i \in 1..Len(marg) |-> h[d.mu][marg[Len(marg) + 1 - i] + 1]],
                 SubsetSym(d.sigma, [i \in 1..Len(marg) |-> marg[Len(marg) + 1 - i]]),
                 d.nu, src, fault)

MarginalStudentsT(h, used, d, marg, src, fault) ==
  IF \E i \in 1..Len(marg) : marg[i] < 0 \/ marg[i] >= d.dim THEN
    Result(h, "index out of range", <<>>, FALSE, 0)
  ELSE margBuild(h, used, Alloc(used), [i \in 1..Len(marg) |-> h[d.mu][marg[i] + 1]],
                 SubsetSym(d.sigma, marg), d.nu, src, fault)

MarginalStudentsTSingle(h, d, i, src) ==
  [Mu |-> h[d.mu][i + 1], Sigma |-> FSqrt(At(d.sigma, i, i)), Nu |-> d.nu, Src |-> src]

\* ---------------------------------------------------------- CovarianceMatrix
\* dstDim: the dimension of the matrix passed as dst (0: empty).
CovarianceMatrix(d, dstDim) ==
  IF dstDim # 0 /\ dstDim # d.dim THEN
    Panic("CovarianceMatrix", <<dstDim>>, "studentst: input matrix size mismatch")
  ELSE [Out("CovarianceMatrix", <<dstDim>>) EXCEPT
          !.val = <<ScaleSym(FDiv(d.nu, FSub(d.nu, F(2))), d.sigma)>>]

Dim(d) == d.dim

Nu(d) == d.nu

\* ------------------------------------------------------------- LogProb, Prob
Square(x) == FMul(x, x)

\* Line 261.
logProbT1(nu, n, logSqrtDet) ==
  FSub(FSub(FSub(Lgamma(FDiv(FAdd(nu, n), F(2))), Lgamma(FDiv(nu, F(2)))),
            FMul(FDiv(n, F(2)), FLog(FMul(nu, Pi)))),
       logSqrtDet)

\* Line 265, mahal the squared distance of line 264.
logProbSum(nu, n, logSqrtDet, mahal) ==
  FSub(logProbT1(nu, n, logSqrtDet),
       FMul(FDiv(FAdd(nu, n), F(2)), FLog(FAdd(F(1), FDiv(mahal, nu)))))

LogProb(h, d, y) ==
  logProbSum(d.nu, F(d.dim), d.logSqrtDet, Square(Mahalanobis(y, h[d.mu], d.chol)))

Prob(h, d, y) == FExp(LogProb(h, d, y))

\* ---------------------------------------------------------------- Mean, Rand
\* dst: 0 (nil: a new slice is made) or the address of the slice passed in.
reuseAs(h, dst, dim) == dst = 0 \/ Len(h[dst]) = dim

Mean(h, d) == h[d.mu]

\* z: the standard normal variates drawn, u: the chi-squared variate drawn.
Rand(h, d, z, u) == AddScaledTo(h[d.mu], FSqrt(FDiv(d.nu, u)), MulVec(d.lower, z))

\* -------------------------------------------------------------------- inputs
SeqsUpTo(S, k) == UNION {[1..n -> S] : n \in 0..k}

Injective(q) == \A i, j \in 1..Len(q) : q[i] = q[j] => i = j

\* The index lists a caller passes for a receiver of dimension dim: every list
\* of distinct coordinates up to length k, each coordinate given twice, each
\* followed by one that is out of range, and the empty list.
IndexLists(dim, k) ==
  {q \in SeqsUpTo(0..(dim - 1), k) : Injective(q)}
    \cup {<<i, i>> : i \in 0..(dim - 1)}
    \cup {<<i, j>> : i \in 0..(dim - 1), j \in {-1, dim}}

\* Symmetric matrices of dimension dim: a on the diagonal, b beside it.
\* <<1, 0>>: the identity; <<2, 1>>: positive definite; <<1, 2>>: not (dim > 1).
Band(dim, a, b) ==
  [i \in 1..dim |-> [j \in 1..dim |->
     IF i = j THEN F(a) ELSE IF i - j = 1 \/ j - i = 1 THEN F(b) ELSE F(0)]]

BandKinds == {<<1, 0>>, <<2, 1>>, <<1, 2>>}

\* The matrices a caller passes with a buffer of length n: of its dimension, or
\* of the next one (a size mismatch).
Sigmas(n) ==
  {Band(dim, k[1], k[2]) : dim \in {m \in {n, n + 1} : m >= 1}, k \in BandKinds}

Nus == {F(1), F(3), PInf}

MuVals == {F(0)}

\* What the caller puts into its buffer of length n: 1, 2, ..., n at first,
\* later one value of MuVals everywhere.
MuInit(n) == [i \in 1..n |-> F(i)]

MuData(n) == {MuInit(n)} \cup {[i \in 1..n |-> v] : v \in MuVals}

ObsVals == {F(2)}

NormVals == {F(1)}

\* What a chi-squared draw with nu degrees of freedom may give: a finite
\* positive value, and for nu = +Inf also +Inf.
ChiVals(nu) == IF IsInf(nu, 1) THEN {F(1), PInf} ELSE {F(1)}

CondFaults == {{}, {"factor22"}, {"solveVec"}, {"solve"}, {"factorNew"}}

\* ------------------------------------------------------------------- actions
Init ==
  /\ \E d \in 0..MaxDim :
       heap = [a \in Addrs |-> IF a = Caller THEN MuInit(d) ELSE <<>>]
  /\ s = <<>>
  /\ ret = Idle

\* A call that builds a distribution returns r: the caller holds the outcome,
\* and the slices nothing refers to any more are collected.
Return(op, args, r) ==
  /\ ret' = [Out(op, args) EXCEPT !.panic = r.panic, !.dist = r.dist, !.ok = r.ok,
                                  !.factorized = r.factorized]
  /\ heap' = Collect(r.heap, {Caller} \cup MuOf(s) \cup MuOf(r.dist))
  /\ UNCHANGED s

\* A call that only reads the receiver returns out.
Answer(out) ==
  /\ ret' = out
  /\ heap' = Collect(heap, {Caller} \cup MuOf(s))
  /\ UNCHANGED s

\* Mean or Rand returns the vector val, written into dst when one was passed.
\* norm and chi count the normal and chi-squared variates the call drew.
Fill(op, args, dst, val, norm, chi) ==
  /\ ret' = [Out(op, args) EXCEPT !.val = <<val>>, !.norm = norm, !.chi = chi]
  /\ heap' = Collect(IF dst = 0 THEN heap ELSE [heap EXCEPT ![dst] = val],
                     {Caller} \cup MuOf(s))
  /\ UNCHANGED s

\* The caller builds a distribution from its buffer, holding its own data (not
\* a sample or a mean that a call wrote there).
DoNewStudentsT ==
  \E sigma \in Sigmas(Len(heap[Caller])), nu \in Nus, src \in Srcs, fault \in BOOLEAN :
    /\ ret = Idle
    /\ heap[Caller] \in MuData(Len(heap[Caller]))
    /\ Return("NewStudentsT", <<Len(sigma)>>,
              NewStudentsT(heap, {Caller} \cup MuOf(s), Caller, sigma, nu, src, fault))

\* The caller goes on with the distribution it has just built.
DoAdopt ==
  /\ ret.op = "NewStudentsT"
  /\ ret.dist # <<>>
  /\ s' = ret.dist
  /\ ret' = Idle
  /\ heap' = Collect(heap, {Caller} \cup MuOf(ret.dist))

\* The caller drops the outcome of the last call.
DoDiscard ==
  /\ ret # Idle
  /\ ret' = Idle
  /\ heap' = Collect(heap, {Caller} \cup MuOf(s))
  /\ UNCHANGED s

\* The caller writes into the buffer it passed to the constructor.
DoWriteMu ==
  \E v \in MuVals :
    /\ ret = Idle
    /\ heap' = [heap EXCEPT ![Caller] = [i \in 1..Len(heap[Caller]) |-> v]]
    /\ heap' # heap
    /\ UNCHANGED <<s, ret>>

DoConditionStudentsT ==
  /\ ret = Idle
  /\ s # <<>>
  /\ \E observed \in IndexLists(s[1].dim, MaxObs), faults \in CondFaults :
     \E values \in [1..Len(observed) -> ObsVals] \cup {<<>>},
        src \in IF faults = {} THEN Srcs ELSE {0} :
       Return("ConditionStudentsT", <<observed, values>>,
              ConditionStudentsT(heap, {Caller} \cup MuOf(s), s[1], observed, values,
                                 src, faults))

DoMarginalStudentsT ==
  /\ ret = Idle
  /\ s # <<>>
  /\ \E marg \in IndexLists(s[1].dim, MaxDim) \ {<<>>}, fault \in BOOLEAN :
     \E src \in IF fault THEN {0} ELSE Srcs :
       Return("MarginalStudentsT", <<marg>>,
              MarginalStudentsT(heap, {Caller} \cup MuOf(s), s[1], marg, src, fault))

DoMarginalStudentsTSingle ==
  /\ ret = Idle
  /\ s # <<>>
  /\ \E i \in 0..s[1].dim, src \in Srcs :
       Answer(IF i >= s[1].dim
              THEN Panic("MarginalStudentsTSingle", <<i, src>>, "index out of range")
              ELSE [Out("MarginalStudentsTSingle", <<i, src>>) EXCEPT
                      !.val = <<MarginalStudentsTSingle(heap, s[1], i, src)>>])

DoCovarianceMatrix ==
  /\ ret = Idle
  /\ s # <<>>
  /\ \E dstDim \in 0..MaxDim : Answer(CovarianceMatrix(s[1], dstDim))

DoDim ==
  /\ ret = Idle
  /\ s # <<>>
  /\ Answer([Out("Dim", <<>>) EXCEPT !.val = <<Dim(s[1])>>])

DoNu ==
  /\ ret = Idle
  /\ s # <<>>
  /\ Answer([Out("Nu", <<>>) EXCEPT !.val = <<Nu(s[1])>>])

\* The points a caller evaluates the density at: the origin of each dimension.
Points == {[i \in 1..n |-> F(0)] : n \in 1..MaxDim}

DoLogProb ==
  /\ ret = Idle
  /\ s # <<>>
  /\ \E y \in Points :
       Answer(IF Len(y) # s[1].dim THEN Panic("LogProb", <<y>>, "badInputLength")
              ELSE [Out("LogProb", <<y>>) EXCEPT !.val = <<LogProb(heap, s[1], y)>>])

DoProb ==
  /\ ret = Idle
  /\ s # <<>>
  /\ \E y \in Points :
       Answer(IF Len(y) # s[1].dim THEN Panic("Prob", <<y>>, "badInputLength")
              ELSE [Out("Prob", <<y>>) EXCEPT !.val = <<Prob(heap, s[1], y)>>])

DoMean ==
  /\ ret = Idle
  /\ s # <<>>
  /\ \E dst \in {0, Caller} :
       IF ~reuseAs(heap, dst, s[1].dim)
       THEN Answer(Panic("Mean", <<dst>>, "badOutputSize"))
       ELSE Fill("Mean", <<dst>>, dst, Mean(heap, s[1]), 0, 0)

DoRand ==
  /\ ret = Idle
  /\ s # <<>>
  /\ \E dst \in {0, Caller} :
       IF ~reuseAs(heap, dst, s[1].dim)
       THEN Answer(Panic("Rand", <<dst>>, "badOutputSize"))
       ELSE \E z \in [1..s[1].dim -> NormVals], u \in ChiVals(s[1].nu) :
              Fill("Rand", <<dst, z, u>>, dst, Rand(heap, s[1], z, u), Len(z), 1)

Next ==
  \/ DoNewStudentsT
  \/ DoAdopt
  \/ DoDiscard
  \/ DoWriteMu
  \/ DoConditionStudentsT
  \/ DoMarginalStudentsT
  \/ DoMarginalStudentsTSingle
  \/ DoCovarianceMatrix
  \/ DoDim
  \/ DoNu
  \/ DoLogProb
  \/ DoProb
  \/ DoMean
  \/ DoRand

Spec == Init /\ [][Next]_vars

\* -------------------------------------------- findUnob and the conditional,
\* applied on their own to every index list, repeated indices included
DoFindUnob ==
  /\ ret = Idle
  /\ \E dim \in 1..MaxDim :
     \E observed \in SeqsUpTo(0..(dim - 1), MaxDim + 1) :
       Answer([Out("findUnob", <<observed, dim>>) EXCEPT
                 !.val = <<findUnob(observed, dim)>>])

DoStudentsTConditional ==
  /\ ret = Idle
  /\ \E dim \in 2..MaxDim, k \in {<<1, 0>>, <<2, 1>>}, nu \in {F(3), PInf} :
     \E observed \in {q \in SeqsUpTo(0..(dim - 1), MaxObs) : q # <<>> /\ Injective(q)} :
     \E values \in [1..Len(observed) -> {F(0), F(2)}] :
       Answer([Out("studentsTConditional",
                   <<observed, values, nu, MuInit(dim), Band(dim, k[1], k[2])>>) EXCEPT
                 !.val = <<studentsTConditional(observed, values, nu, MuInit(dim),
                                                Band(dim, k[1], k[2]), {})>>])

NextFindUnob ==
  \/ DoFindUnob
  \/ DoStudentsTConditional
  \/ DoDiscard

SpecFindUnob == Init /\ [][NextFindUnob]_vars

\* ------------------------------------------------------------------- the claims
\* What the formulas below compare the program's results with: the textbook
\* conditional of a partitioned scale matrix, with the inverse of the observed
\* block taken by cofactors (the program takes it by Cholesky solves).
Ascending(q) == \A i, j \in 1..Len(q) : i < j => q[i] < q[j]

IndexSet(q) == {q[i] : i \in 1..Len(q)}

InRange(q, dim) == \A i \in 1..Len(q) : q[i] >= 0 /\ q[i] < dim

Complement(q, dim) ==
  SelectSeq([i \in 1..dim |-> i - 1], LAMBDA v : v \notin IndexSet(q))

Reverse(q) == [i \in 1..Len(q) |-> q[Len(q) + 1 - i]]

Without(q, i) == [k \in 1..(Len(q) - 1) |-> IF k < i THEN q[k] ELSE q[k + 1]]

Minor(m, i, j) == [r \in 1..(Len(m) - 1) |-> Without(Without(m, i)[r], j)]

RECURSIVE Det(_)
Det(m) ==
  IF Len(m) = 0 THEN F(1)
  ELSE SumTo([j \in 1..Len(m) |->
                FMul(IF j % 2 = 1 THEN m[1][j] ELSE FNeg(m[1][j]), Det(Minor(m, 1, j)))],
             Len(m))

Inverse(m) ==
  [i \in 1..Len(m) |-> [j \in 1..Len(m) |->
     FDiv(IF (i + j) % 2 = 0 THEN Det(Minor(m, j, i)) ELSE FNeg(Det(Minor(m, j, i))),
          Det(m))]]

\* Sigma11 - Sigma21^T Sigma22^-1 Sigma21 for the blocks ob (observed) and un.
Schur(sigma, ob, un) ==
  [i \in 1..Len(un) |-> [j \in 1..Len(un) |->
     FSub(At(sigma, un[i], un[j]),
          SumTo([a \in 1..Len(ob) |->
                   FMul(At(sigma, ob[a], un[i]),
                        SumTo([b \in 1..Len(ob) |->
                                 FMul(Inverse(SubsetSym(sigma, ob))[a][b],
                                      At(sigma, ob[b], un[j]))], Len(ob)))],
                Len(ob)))]]

\* (values - mu2)^T Sigma22^-1 (values - mu2)
BetaOf(sigma, mu, ob, values) ==
  SumTo([a \in 1..Len(ob) |->
           FMul(FSub(values[a], mu[ob[a] + 1]),
                SumTo([b \in 1..Len(ob) |->
                         FMul(Inverse(SubsetSym(sigma, ob))[a][b],
                              FSub(values[b], mu[ob[b] + 1]))], Len(ob)))],
        Len(ob))

Constructors == {"NewStudentsT", "ConditionStudentsT", "MarginalStudentsT"}

\* What a caller can observe of a distribution: its fields, the mean by value.
View(d, h) ==
  [nu |-> d.nu, mu |-> h[d.mu], sigma |-> d.sigma, chol |-> d.chol,
   lower |-> d.lower, logSqrtDet |-> d.logSqrtDet, dim |-> d.dim]

\* C1: a constructor that returns (NewStudentsT, ConditionStudentsT,
\* MarginalStudentsT) reports ok = false exactly when the distribution it
\* returns is nil; when a Cholesky factorization inside it failed the result
\* is (nil, false).
OkIffDist ==
  (ret.op \in Constructors /\ ret.panic = "") =>
     /\ (ret.ok = FALSE) <=> (ret.dist = <<>>)
     /\ ret.dist # <<>> => ret.dist[1].chol.ok

\* C1 witness: ConditionStudentsT returned (nil, false) after a factorization.
OkIffDistWitness ==
  /\ ret.op = "ConditionStudentsT"
  /\ ret.panic = ""
  /\ ret.factorized = 1
  /\ ret.ok = FALSE
  /\ ret.dist = <<>>

\* C2: once the caller holds a distribution, no call and no write of the
\* caller into the slice it passed as mu changes its nu, mean, scale matrix,
\* factorization, lower factor, log-determinant or dimension.
Immutable ==
  [][(s # <<>> /\ s' # ret.dist) =>
       (s' # <<>> /\ View(s'[1], heap') = View(s[1], heap))]_vars

\* C2 witness: the distribution still has the mean 1, 2 it was built with, the
\* caller has since overwritten its slice, and a Rand call has filled it again.
ImmutableWitness ==
  /\ s # <<>>
  /\ s[1].dim = 2
  /\ heap[s[1].mu] = MuInit(2)
  /\ ret.op = "Rand"
  /\ ret.args[1] = Caller
  /\ heap[Caller] # MuInit(2)

\* C3 (as the specification states it): ConditionStudentsT called with an
\* index repeated in observed, all indices in range and as many values as
\* indices, panics.
RepeatedObservedPanics ==
  (/\ ret.op = "ConditionStudentsT"
   /\ s # <<>>
   /\ ret.args[1] # <<>>
   /\ ~Injective(ret.args[1])
   /\ InRange(ret.args[1], s[1].dim)
   /\ Len(ret.args[2]) = Len(ret.args[1]))
    => ret.panic # ""

\* C4: ConditionStudentsT with an empty observed list, or with a list of
\* distinct indices covering every dimension, panics, returns nothing and has
\* attempted no factorization.
DegeneratePanics ==
  (/\ ret.op = "ConditionStudentsT"
   /\ s # <<>>
   /\ \/ ret.args[1] = <<>>
      \/ /\ Injective(ret.args[1])
         /\ IndexSet(ret.args[1]) = 0..(s[1].dim - 1))
    => (ret.panic # "" /\ ret.factorized = 0 /\ ret.dist = <<>> /\ ~ret.ok)

\* C4 witness: both dimensions of a two-dimensional distribution observed,
\* with a value for each.
DegeneratePanicsWitness ==
  /\ ret.op = "ConditionStudentsT"
  /\ s # <<>>
  /\ s[1].dim = 2
  /\ IndexSet(ret.args[1]) = {0, 1}
  /\ Len(ret.args[2]) = 2
  /\ ret.panic = "stat: all dimensions observed"
  /\ ret.factorized = 0

\* C5 (as the specification states it): every distribution a constructor
\* returns or the caller holds has nu > 2 (+Inf included).
NuAboveTwo ==
  /\ s # <<>> => FLess(F(2), s[1].nu)
  /\ ret.dist # <<>> => FLess(F(2), ret.dist[1].nu)

\* C6 (as the specification states it): CovarianceMatrix on a distribution
\* with nu <= 2 and a destination of the right size halts, and never returns
\* a finite matrix.
CovarianceHaltsBelowTwo ==
  (/\ ret.op = "CovarianceMatrix"
   /\ s # <<>>
   /\ ~FLess(F(2), s[1].nu)
   /\ ret.args[1] \in {0, s[1].dim})
    => (ret.panic # "" /\ ret.val = <<>>)

\* C7 (as the specification states it): Rand on a distribution with nu = +Inf
\* draws no chi-squared variate and returns mu + lower * z.
GaussianRandUnscaled ==
  (/\ ret.op = "Rand"
   /\ ret.panic = ""
   /\ s # <<>>
   /\ IsInf(s[1].nu, 1))
    => /\ ret.chi = 0
       /\ ret.val = <<[i \in 1..s[1].dim |->
                         FAdd(heap[s[1].mu][i], MulVec(s[1].lower, ret.args[2])[i])]>>

\* C8: ConditionStudentsT succeeding on k distinct in-range indices of an
\* n-dimensional distribution returns dimension n - k; for finite nu the new nu
\* is nu + k and the scale matrix is the Schur complement times
\* (nu + beta) / (nu + k); for nu = +Inf nu stays +Inf and the scale matrix is
\* the Schur complement itself.
ConditionedParameters ==
  (/\ ret.op = "ConditionStudentsT"
   /\ ret.ok
   /\ s # <<>>
   /\ Injective(ret.args[1]))
    => /\ ret.dist[1].dim = s[1].dim - Len(ret.args[1])
       /\ Len(ret.dist[1].sigma) = s[1].dim - Len(ret.args[1])
       /\ IF IsInf(s[1].nu, 1)
          THEN /\ ret.dist[1].nu = PInf
               /\ ret.dist[1].sigma =
                    Schur(s[1].sigma, ret.args[1], Complement(ret.args[1], s[1].dim))
          ELSE /\ ret.dist[1].nu = FAdd(s[1].nu, F(Len(ret.args[1])))
               /\ ret.dist[1].sigma =
                    ScaleSym(FDiv(FAdd(s[1].nu,
                                       BetaOf(s[1].sigma, heap[s[1].mu], ret.args[1],
                                              ret.args[2])),
                                  FAdd(s[1].nu, F(Len(ret.args[1])))),
                             Schur(s[1].sigma, ret.args[1],
                                   Complement(ret.args[1], s[1].dim)))

\* C8 witness: two of three correlated dimensions observed away from the mean,
\* finite nu.
ConditionedParametersWitness ==
  /\ ret.op = "ConditionStudentsT"
  /\ ret.ok
  /\ s # <<>>
  /\ s[1].dim = 3
  /\ s[1].nu = F(3)
  /\ s[1].sigma = Band(3, 2, 1)
  /\ heap[s[1].mu] = MuInit(3)
  /\ Len(ret.args[1]) = 2
  /\ Injective(ret.args[1])

MarginalKeepsOrder ==
  (/\ ret.op = "MarginalStudentsT"
   /\ ret.ok
   /\ s # <<>>)
    => /\ ret.dist[1].nu = s[1].nu
       /\ ret.dist[1].dim = Len(ret.args[1])
       /\ heap[ret.dist[1].mu] =
            [i \in 1..Len(ret.args[1]) |-> heap[s[1].mu][ret.args[1][i] + 1]]
       /\ ret.dist[1].sigma =
            [i \in 1..Len(ret.args[1]) |-> [j \in 1..Len(ret.args[1]) |->
               s[1].sigma[ret.args[1][i] + 1][ret.args[1][j] + 1]]]
       /\ ret.args[1] = [i \in 1..s[1].dim |-> i - 1] =>
            /\ ret.dist[1].dim = s[1].dim
            /\ heap[ret.dist[1].mu] = heap[s[1].mu]
            /\ ret.dist[1].sigma = s[1].sigma

\* C10 witness: the marginal over dimensions 2, 0 (in that order) of a
\* three-dimensional distribution with mean 1, 2, 3.
MarginalKeepsOrderWitness ==
  /\ ret.op = "MarginalStudentsT"
  /\ ret.ok
  /\ s # <<>>
  /\ s[1].dim = 3
  /\ heap[s[1].mu] = MuInit(3)
  /\ ret.args[1] = <<2, 0>>
  /\ heap[ret.dist[1].mu] = <<F(3), F(1)>>
====
